---- MODULE Spec2Model ----
(***************************************************************************)
(* Frame: the multi-terminal session manager (renderer-side                *)
(* TerminalManager), the channel to the main process and the PTY host      *)
(* controller behind it; and the single-terminal main process with its     *)
(* prompt logger.                                                          *)
(***************************************************************************)
EXTENDS Integers, Sequences, FiniteSets, TLC

(* ---------------------------------------------------------------- bounds *)
\* createTerminal calls explored in the deep scenario (fills the registry)
MaxCreates == 11
\* createTerminal calls explored in the wide scenario
WideCreates == 4
\* user/host events other than create explored in the wide scenario
WideOps == 3
\* the scenario near capacity: createTerminal calls and other events explored
NearCreates == 4
NearOps == 1
\* the scenario with fitting, resizing and input: createTerminal calls and
\* other events explored
ViewCreates == 2
ViewOps == 3
\* the scenario in which the host answers: createTerminal calls and other
\* events explored
LiveCreates == 2
LiveOps == 2
\* TERMINAL_CREATED listeners that may be pending at the same time
MaxPending == 2
\* largest reading of Date.now()
MaxClock == 1

\* the single-terminal main process: start-terminal and restart-terminal
\* messages, characters of terminal input, and resize or exit events explored
MaxStarts == 2
MaxTyped == 4
MaxLegacyOps == 1
\* longest chunk of one terminal-input message
MaxChunk == 2

(* ------------------------------------------------------------- constants *)
maxTerminals == 9
\* sessions already open when the scenario near capacity starts
NearFilled == 7
Null == 0
NoName == <<>>
ViewModes == {"tabs", "grid"}
GridLayouts == {"2x2", "1x2"}
CustomNames == {<<"custom">>}
\* cols x rows of a new xterm Terminal
DefaultSize == <<80, 24>>
\* cols x rows that fit() can compute for a mounted emulator
FitSizes == {<<80, 24>>, <<120, 40>>}
NoData == <<>>
\* cols x rows a pseudo-terminal is spawned with
HostDefaultSize == <<80, 24>>

VARIABLES
    terminals,          \* this.terminals: Map in insertion order, as a sequence of state records
    activeTerminalId,   \* this.activeTerminalId (Null for null)
    viewMode,           \* this.viewMode
    gridLayout,         \* this.gridLayout
    terminalCounter,    \* this.terminalCounter
    listeners,          \* handlers registered on IPC.TERMINAL_CREATED, in registration order (their options)
    toHost,             \* messages sent by the renderer, not yet handled by the host
    toDisplay,          \* messages sent by the host, not yet handled by the renderer
    hostNextId,         \* host: next session id to assign
    hostRunning,        \* host: ids with a running shell
    clock,              \* current reading of Date.now()
    instances,          \* per registered id: the emulator (opened, cols x rows, data written)
    mounted,            \* ids whose element is attached to the content area
    mountTimers,        \* ids with a pending mountTerminal timer
    containerFit,       \* cols x rows that fit the content area now
    hostOut,            \* host: per id, the number of output chunks produced
    hostSize,           \* host: per id, cols x rows of the pseudo-terminal
    fitTimers,          \* pending fitAll timers started by the view coordinator
    destroys,           \* per id, the TERMINAL_DESTROY messages sent so far
    budget,             \* events left to explore
    last,               \* what the last event handled by the renderer did
    ptyProcess,         \* single-terminal main process: ptyProcess (Null, or the position in ptys)
    ptys,               \* every pseudo-terminal spawned by startPTY, in spawn order
    currentProjectPath, \* single-terminal main process: currentProjectPath (NoPath for null)
    inputBuffer,        \* prompt logger: the characters of the line being typed
    logFile,            \* prompts-history.txt: the entries appended, in order
    typed,              \* every character of terminal input the main process handled with a pty, in order
    legacyBudget        \* single-terminal events left to explore

vars == <<terminals, activeTerminalId, viewMode, gridLayout, terminalCounter,
          listeners, toHost, toDisplay, hostNextId, hostRunning, clock,
          instances, mounted, mountTimers, containerFit, hostOut, hostSize,
          fitTimers, destroys, budget, last,
          ptyProcess, ptys, currentProjectPath, inputBuffer, logFile, typed,
          legacyBudget>>

\* the state of the single-terminal main process
legacyVars == <<ptyProcess, ptys, currentProjectPath, inputBuffer, logFile, typed,
                legacyBudget>>

(* ------------------------------------------------------------ Map helpers *)
Has(ts, id) == \E i \in 1..Len(ts) : ts[i].id = id

IndexOf(ts, id) == CHOOSE i \in 1..Len(ts) : ts[i].id = id

\* Map.set: a new key is appended, an existing key keeps its position
MapSet(ts, rec) ==
    IF Has(ts, rec.id) THEN [ts EXCEPT ![IndexOf(ts, rec.id)] = rec]
    ELSE Append(ts, rec)

\* Map.delete
MapDelete(ts, id) == SelectSeq(ts, LAMBDA t : t.id # id)

Ids(ts) == {ts[i].id : i \in 1..Len(ts)}

(* ------------------------------------------------------------- messages *)
Msg(type, id, ok) == [type |-> type, id |-> id, ok |-> ok, data |-> NoData]

\* a message with a payload besides the id
DataMsg(type, id, data) == [type |-> type, id |-> id, ok |-> TRUE, data |-> data]

(* --------------------------------------------------- getTerminalStates *)
\* a plausible slip: an unstable sort puts equal timestamps in reverse
RECURSIVE InsertSortedUnstable(_, _)
InsertSortedUnstable(s, t) ==
    IF s = <<>> THEN <<t>>
    ELSE IF Head(s).createdAt < t.createdAt
         THEN <<Head(s)>> \o InsertSortedUnstable(Tail(s), t)
         ELSE <<t>> \o s

\* insert t into the sorted sequence s, after every element that is not greater
RECURSIVE InsertSorted(_, _)
InsertSorted(s, t) ==
    IF s = <<>> THEN <<t>>
    ELSE IF Head(s).createdAt <= t.createdAt
         THEN <<Head(s)>> \o InsertSorted(Tail(s), t)
         ELSE <<t>> \o s

\* Array.prototype.sort((a, b) => a.createdAt - b.createdAt): stable
RECURSIVE SortByCreatedAt(_)
SortByCreatedAt(ts) ==
    IF ts = <<>> THEN <<>>
    ELSE InsertSorted(SortByCreatedAt(SubSeq(ts, 1, Len(ts) - 1)), ts[Len(ts)])

getTerminalStates(m) == SortByCreatedAt(m.terminals)

(* --------------------------------------------------- _notifyStateChange *)
Snapshot(m) ==
    [terminals |-> getTerminalStates(m),
     activeTerminalId |-> m.activeTerminalId,
     viewMode |-> m.viewMode,
     gridLayout |-> m.gridLayout]

(* ------------------------------------------------------- mountTerminal *)
\* the element is attached, the emulator opened once, the fit timer started
mountTerminal(m, terminalId) ==
    IF ~Has(m.terminals, terminalId) THEN m
    ELSE [m EXCEPT !.mounted = @ \cup {terminalId},
                   !.instances[terminalId].opened = TRUE,
                   !.mountTimers = @ \cup {terminalId}]

(* ------------------------------------- MultiTerminalUI._onStateChange *)
\* a plausible slip: the content area is not cleared before mounting
renderTabViewKeepsMounted(m, state) ==
    LET m1 == [m EXCEPT !.fitTimers = @ + 1]
    IN IF state.activeTerminalId # Null
       THEN mountTerminal(m1, state.activeTerminalId)
       ELSE m1

\* the content area is rebuilt and only the active terminal is mounted
renderTabView(m, state) ==
    LET m1 == [m EXCEPT !.mounted = {}, !.fitTimers = @ + 1]
    IN IF state.activeTerminalId # Null
       THEN mountTerminal(m1, state.activeTerminalId)
       ELSE m1

\* the grid mounts the terminals of the snapshot, one after the other
RECURSIVE MountAll(_, _)
MountAll(m, ts) ==
    IF ts = <<>> THEN m
    ELSE MountAll(mountTerminal(m, Head(ts).id), Tail(ts))

\* a plausible slip: the grid is rendered and no fit is scheduled
renderGridViewNoFit(m, state) ==
    MountAll([m EXCEPT !.mounted = {}], state.terminals)

renderGridView(m, state) ==
    MountAll([m EXCEPT !.mounted = {}, !.fitTimers = @ + 1], state.terminals)

onStateChange(m, state) ==
    IF state.viewMode = "tabs" THEN renderTabView(m, state)
    ELSE renderGridView(m, state)

\* the subscriber is called with a fresh snapshot and renders it (the
\* manager's state m is bound as a value, so that it is computed once)
notifyStateChange(m) ==
    CHOOSE r \in {onStateChange([x EXCEPT !.notes = Append(@, Snapshot(x))], Snapshot(x)) :
                     x \in {m}} : TRUE

(* ---------------------------------------------------- setActiveTerminal *)
\* a plausible slip: the previous terminal's flag is never cleared
SetFlagNeverCleared(ts, id, flag) ==
    IF Has(ts, id) /\ flag THEN [ts EXCEPT ![IndexOf(ts, id)].isActive = TRUE] ELSE ts

\* state.isActive = flag on the terminal, when it is registered
SetFlag(ts, id, flag) ==
    IF Has(ts, id) THEN [ts EXCEPT ![IndexOf(ts, id)].isActive = flag] ELSE ts

\* a plausible slip: the subscriber is told before the new flag is set
setActiveTerminalNotifiesEarly(m, terminalId) ==
    LET ts1 == IF m.activeTerminalId # Null
               THEN SetFlag(m.terminals, m.activeTerminalId, FALSE)
               ELSE m.terminals
        told == notifyStateChange([m EXCEPT !.terminals = ts1,
                                            !.activeTerminalId = terminalId])
    IN [told EXCEPT !.terminals = SetFlag(@, terminalId, TRUE)]

setActiveTerminal(m, terminalId) ==
    LET ts1 == IF m.activeTerminalId # Null
               THEN SetFlag(m.terminals, m.activeTerminalId, FALSE)
               ELSE m.terminals
        ts2 == SetFlag(ts1, terminalId, TRUE)
    IN notifyStateChange([m EXCEPT !.terminals = ts2,
                                   !.activeTerminalId = terminalId])

(* --------------------------------------------------- _initializeTerminal *)
\* a new Terminal with its own element: not opened, default size, nothing written
NewInstance(is, terminalId) ==
    [id \in (DOMAIN is) \cup {terminalId} |->
        IF id = terminalId
        THEN [opened |-> FALSE, size |-> DefaultSize, written |-> <<>>]
        ELSE is[id]]

\* terminal.dispose(), element.remove() and the Map entry gone
DropInstance(is, terminalId) == [id \in (DOMAIN is) \ {terminalId} |-> is[id]]

\* a plausible slip: every new terminal takes the focus
ActivateAlways(size, active) == TRUE

\* the condition under which a new terminal is made active
ActivateOnCreate(size, active) == size = 1 \/ active = Null

\* a plausible slip: the default name is numbered by the registry's size
initializeTerminalNumberedBySize(m, terminalId, options, now) ==
    LET counter == IF options.name = NoName THEN Len(m.terminals) + 1
                   ELSE m.terminalCounter
        state == [id |-> terminalId,
                  name |-> IF options.name = NoName THEN <<"Terminal", counter>>
                           ELSE options.name,
                  customName |-> NoName,
                  isActive |-> FALSE,
                  createdAt |-> now]
        m1 == [m EXCEPT !.terminals = MapSet(@, state),
                        !.terminalCounter = counter,
                        !.instances = NewInstance(@, terminalId),
                        !.mounted = @ \ {terminalId}]
        m2 == IF ActivateOnCreate(Len(m1.terminals), m1.activeTerminalId)
              THEN setActiveTerminal(m1, terminalId)
              ELSE m1
    IN notifyStateChange(m2)

initializeTerminal(m, terminalId, options, now) ==
    LET counter == IF options.name = NoName THEN m.terminalCounter + 1
                   ELSE m.terminalCounter
        state == [id |-> terminalId,
                  name |-> IF options.name = NoName THEN <<"Terminal", counter>>
                           ELSE options.name,
                  customName |-> NoName,
                  isActive |-> FALSE,
                  createdAt |-> now]
        m1 == [m EXCEPT !.terminals = MapSet(@, state),
                        !.terminalCounter = counter,
                        !.instances = NewInstance(@, terminalId),
                        !.mounted = @ \ {terminalId}]
        m2 == IF ActivateOnCreate(Len(m1.terminals), m1.activeTerminalId)
              THEN setActiveTerminal(m1, terminalId)
              ELSE m1
    IN notifyStateChange(m2)

(* -------------------------------------------------------- closeTerminal *)
\* a plausible slip: the first remaining terminal is taken
ReassignFirst(remaining) == remaining[1].id

\* remaining[remaining.length - 1]
ReassignTarget(remaining) == remaining[Len(remaining)].id

\* a plausible slip: the active id is only re-assigned when a terminal remains
closeTerminalStaleActive(m, terminalId) ==
    IF ~Has(m.terminals, terminalId) THEN m
    ELSE
      LET m1 == [m EXCEPT !.terminals = MapDelete(@, terminalId),
                          !.instances = DropInstance(@, terminalId),
                          !.mounted = @ \ {terminalId},
                          !.sent = Append(@, Msg("TERMINAL_DESTROY", terminalId, TRUE))]
          m2 == IF m1.activeTerminalId = terminalId /\ Len(m1.terminals) > 0
                THEN setActiveTerminal(m1, ReassignTarget(m1.terminals))
                ELSE m1
      IN notifyStateChange(m2)

\* a plausible slip: the notification is emitted outside the if (instance)
closeTerminalAlwaysNotifies(m, terminalId) ==
    IF ~Has(m.terminals, terminalId) THEN notifyStateChange(m)
    ELSE
      LET m1 == [m EXCEPT !.terminals = MapDelete(@, terminalId),
                          !.instances = DropInstance(@, terminalId),
                          !.mounted = @ \ {terminalId},
                          !.sent = Append(@, Msg("TERMINAL_DESTROY", terminalId, TRUE))]
          m2 == IF m1.activeTerminalId = terminalId
                THEN LET next == IF Len(m1.terminals) > 0 THEN ReassignTarget(m1.terminals)
                                 ELSE Null
                         m3 == [m1 EXCEPT !.activeTerminalId = next]
                     IN IF next # Null THEN setActiveTerminal(m3, next) ELSE m3
                ELSE m1
      IN notifyStateChange(m2)

closeTerminal(m, terminalId) ==
    IF ~Has(m.terminals, terminalId) THEN m
    ELSE
      LET m1 == [m EXCEPT !.terminals = MapDelete(@, terminalId),
                          !.instances = DropInstance(@, terminalId),
                          !.mounted = @ \ {terminalId},
                          !.sent = Append(@, Msg("TERMINAL_DESTROY", terminalId, TRUE))]
          m2 == IF m1.activeTerminalId = terminalId
                THEN LET remaining == m1.terminals
                         next == IF Len(remaining) > 0 THEN ReassignTarget(remaining)
                                 ELSE Null
                         m3 == [m1 EXCEPT !.activeTerminalId = next]
                     IN IF next # Null THEN setActiveTerminal(m3, next) ELSE m3
                ELSE m1
      IN notifyStateChange(m2)

(* ------------------------------------------- TERMINAL_DESTROYED handler *)
\* a plausible slip: the handler refreshes the subscriber whatever the id
onTerminalDestroyedAlways(m, terminalId) ==
    notifyStateChange(closeTerminal(m, terminalId))

\* a plausible slip: a notice for an id that is gone is answered with a
\* destroy request
onTerminalDestroyedAnswers(m, terminalId) ==
    IF Has(m.terminals, terminalId) THEN closeTerminal(m, terminalId)
    ELSE [m EXCEPT !.sent = Append(@, Msg("TERMINAL_DESTROY", terminalId, TRUE))]

\* if (this.terminals.has(terminalId)) this.closeTerminal(terminalId)
onTerminalDestroyed(m, terminalId) ==
    IF Has(m.terminals, terminalId) THEN closeTerminal(m, terminalId) ELSE m

(* ------------------------------------------------------- renameTerminal *)
\* a plausible slip: the renamed entry is deleted and set again, which moves it
\* to the end of the Map
renameTerminalReinserted(m, terminalId, newName) ==
    IF ~Has(m.terminals, terminalId) THEN m
    ELSE LET t == m.terminals[IndexOf(m.terminals, terminalId)]
         IN notifyStateChange(
              [m EXCEPT !.terminals =
                 Append(MapDelete(@, terminalId),
                        [t EXCEPT !.customName = newName, !.name = newName])])

renameTerminal(m, terminalId, newName) ==
    IF ~Has(m.terminals, terminalId) THEN m
    ELSE notifyStateChange(
           [m EXCEPT !.terminals[IndexOf(m.terminals, terminalId)].customName = newName,
                     !.terminals[IndexOf(m.terminals, terminalId)].name = newName])

(* ------------------------------------------- setViewMode / setGridLayout *)
\* a plausible slip: with no terminal open the subscriber is not told
setViewModeNeedsTerminals(m, mode) ==
    IF m.terminals = <<>> THEN [m EXCEPT !.viewMode = mode]
    ELSE notifyStateChange([m EXCEPT !.viewMode = mode])

setViewMode(m, mode) == notifyStateChange([m EXCEPT !.viewMode = mode])

setGridLayout(m, layout) == notifyStateChange([m EXCEPT !.gridLayout = layout])

(* ------------------------------------------------ TERMINAL_CREATED reply *)
\* a different matching: a reply goes to the oldest pending handler only
OldestListenerCalled(ls) == IF ls = <<>> THEN <<>> ELSE <<Head(ls)>>

\* a slip: the handlers listen on a channel the host does not reply on
NoListenerCalled(ls) == <<>>

\* the listeners an emit on IPC.TERMINAL_CREATED calls: every registered one
ListenersCalled(ls) == ls

\* a plausible slip: response.success is not looked at
RECURSIVE DispatchCreatedAnyReply(_, _, _, _)
DispatchCreatedAnyReply(m, ls, response, now) ==
    IF ls = <<>> THEN m
    ELSE DispatchCreatedAnyReply(initializeTerminal(m, response.id, Head(ls), now),
                                 Tail(ls), response, now)

\* one createTerminal handler: on success initialise the terminal
RECURSIVE DispatchCreated(_, _, _, _)
DispatchCreated(m, ls, response, now) ==
    IF ls = <<>> THEN m
    ELSE DispatchCreated(
           IF response.ok THEN initializeTerminal(m, response.id, Head(ls), now) ELSE m,
           Tail(ls), response, now)

(* ---------------------------------------------------------------- state *)
\* the manager's fields, with the notifications and messages of the event being handled
Mgr ==
    [terminals |-> terminals,
     activeTerminalId |-> activeTerminalId,
     viewMode |-> viewMode,
     gridLayout |-> gridLayout,
     terminalCounter |-> terminalCounter,
     instances |-> instances,
     mounted |-> mounted,
     mountTimers |-> mountTimers,
     fitTimers |-> fitTimers,
     notes |-> <<>>,
     sent |-> <<>>]

\* the TERMINAL_DESTROY messages of msgs added to the count d keeps per id
RECURSIVE CountDestroys(_, _)
CountDestroys(d, msgs) ==
    IF msgs = <<>> THEN d
    ELSE IF Head(msgs).type # "TERMINAL_DESTROY" THEN CountDestroys(d, Tail(msgs))
    ELSE LET id == Head(msgs).id
         IN CountDestroys([x \in (DOMAIN d) \cup {id} |->
                              IF x # id THEN d[x]
                              ELSE IF id \in DOMAIN d THEN d[id] + 1 ELSE 1],
                          Tail(msgs))

\* store the manager's fields and put the messages it sent on the channel
Commit(m) ==
    /\ terminals' = m.terminals
    /\ activeTerminalId' = m.activeTerminalId
    /\ viewMode' = m.viewMode
    /\ gridLayout' = m.gridLayout
    /\ terminalCounter' = m.terminalCounter
    /\ instances' = m.instances
    /\ mounted' = m.mounted
    /\ mountTimers' = m.mountTimers
    /\ fitTimers' = m.fitTimers
    /\ destroys' = CountDestroys(destroys, m.sent)

\* record of the event just handled: its notifications, its messages and
\* what the createTerminal promises concerned got
Last(op, id, m, result, resolved, rejected) ==
    [op |-> op, id |-> id, prevActive |-> activeTerminalId,
     found |-> Has(terminals, id),
     removed |-> SelectSeq(terminals, LAMBDA t : ~Has(m.terminals, t.id)),
     notes |-> m.notes, sent |-> m.sent, result |-> result,
     resolved |-> resolved, rejected |-> rejected,
     timers |-> m.fitTimers - fitTimers]

\* null where a path is expected
NoPath == "null"

\* the single-terminal main process after its module was loaded
LegacyLoaded ==
    /\ ptyProcess = Null
    /\ ptys = <<>>
    /\ currentProjectPath = NoPath
    /\ inputBuffer = <<>>
    /\ logFile = <<>>
    /\ typed = <<>>
    /\ legacyBudget = [starts |-> MaxStarts, typed |-> MaxTyped, ops |-> MaxLegacyOps]

\* the registry after n createTerminal calls, each answered before the next
\* one was made and all within one clock reading: terminal 1 is active
Filled(n) ==
    [i \in 1..n |-> [id |-> i, name |-> <<"Terminal", i>>, customName |-> NoName,
                     isActive |-> (i = 1), createdAt |-> 0]]

\* the scenarios explored: the registry the run starts from and the events it may take
Scenarios ==
    {[filled |-> 0, creates |-> MaxCreates, ops |-> 0],
     [filled |-> 0, creates |-> WideCreates, ops |-> WideOps],
     [filled |-> NearFilled, creates |-> NearCreates, ops |-> NearOps]}

Init ==
    /\ \E sc \in Scenarios :
         /\ terminals = Filled(sc.filled)
         /\ activeTerminalId = (IF sc.filled = 0 THEN Null ELSE 1)
         /\ terminalCounter = sc.filled
         /\ hostNextId = sc.filled + 1
         /\ hostRunning = 1..sc.filled
         /\ hostOut = [i \in 1..sc.filled |-> 0]
         /\ hostSize = [i \in 1..sc.filled |-> HostDefaultSize]
         /\ instances = [i \in 1..sc.filled |->
                           [opened |-> (i = 1), size |-> DefaultSize, written |-> <<>>]]
         /\ mounted = (IF sc.filled = 0 THEN {} ELSE {1})
         /\ mountTimers = (IF sc.filled = 0 THEN {} ELSE {1})
         /\ budget = [creates |-> sc.creates, ops |-> sc.ops]
    /\ viewMode = "tabs"
    /\ gridLayout = "2x2"
    /\ listeners = <<>>
    /\ toHost = <<>>
    /\ toDisplay = <<>>
    /\ clock = 0
    /\ containerFit = <<120, 40>>
    /\ fitTimers = 0
    /\ destroys = <<>>
    /\ last = [op |-> "init", id |-> Null, prevActive |-> Null, found |-> FALSE,
               removed |-> <<>>, notes |-> <<>>, sent |-> <<>>, result |-> "none",
               resolved |-> <<>>, rejected |-> 0, timers |-> 0]
    /\ LegacyLoaded

UseOp == budget.ops > 0 /\ budget' = [budget EXCEPT !.ops = @ - 1]

hostVars == <<hostNextId, hostRunning, hostOut, hostSize, legacyVars>>
viewVars == <<viewMode, gridLayout>>

(* ------------------------------------------------------- createTerminal *)
\* a plausible slip: off by one in the capacity check
AtCapacityOffByOne(size) == size > maxTerminals

\* this.terminals.size >= this.maxTerminals
AtCapacity(size) == size >= maxTerminals

CreateOptions == {[name |-> NoName]}

\* createTerminal up to the point where it awaits the reply
CreateTerminal(options) ==
    /\ budget.creates > 0
    /\ budget' = [budget EXCEPT !.creates = @ - 1]
    /\ IF AtCapacity(Len(terminals))
       THEN /\ last' = Last("createTerminal", Null, Mgr, "null", <<>>, 0)
            /\ UNCHANGED <<listeners, toHost>>
       ELSE /\ Len(listeners) < MaxPending
            /\ listeners' = Append(listeners, options)
            /\ toHost' = Append(toHost, Msg("TERMINAL_CREATE", Null, TRUE))
            /\ last' = Last("createTerminal", Null,
                            [Mgr EXCEPT !.sent = <<Msg("TERMINAL_CREATE", Null, TRUE)>>],
                            "pending", <<>>, 0)
    /\ UNCHANGED <<terminals, activeTerminalId, viewVars, terminalCounter,
                   instances, mounted, mountTimers, containerFit, fitTimers,
                   destroys, toDisplay, hostVars, clock>>

\* the listeners still registered after an emit: each called handler removed itself
ListenersKept(ls) == SubSeq(ls, Len(ListenersCalled(ls)) + 1, Len(ls))

\* the renderer handles a TERMINAL_CREATED message
OnTerminalCreated ==
    /\ toDisplay # <<>>
    /\ Head(toDisplay).type = "TERMINAL_CREATED"
    /\ \E response \in {Head(toDisplay)}, called \in {ListenersCalled(listeners)} :
       \E m \in {DispatchCreated(Mgr, called, response, clock)} :
          /\ Commit(m)
          /\ listeners' = ListenersKept(listeners)
          /\ last' = Last("TERMINAL_CREATED", response.id, m,
                          IF called = <<>> THEN "dropped"
                          ELSE IF response.ok THEN "resolved" ELSE "rejected",
                          IF response.ok THEN [i \in 1..Len(called) |-> response.id] ELSE <<>>,
                          IF response.ok THEN 0 ELSE Len(called))
    /\ toDisplay' = Tail(toDisplay)
    /\ UNCHANGED <<toHost, hostVars, containerFit, clock, budget>>

\* the renderer handles a TERMINAL_DESTROYED message
OnTerminalDestroyed ==
    /\ toDisplay # <<>>
    /\ Head(toDisplay).type = "TERMINAL_DESTROYED"
    /\ \E terminalId \in {Head(toDisplay).id} :
       \E m \in {onTerminalDestroyed(Mgr, terminalId)} :
          /\ Commit(m)
          /\ toHost' = toHost \o m.sent
          /\ last' = Last("TERMINAL_DESTROYED", terminalId, m, "none", <<>>, 0)
    /\ toDisplay' = Tail(toDisplay)
    /\ UNCHANGED <<listeners, hostVars, containerFit, clock, budget>>

\* ids a caller of the manager may name
KnownIds == 1..(hostNextId - 1)

\* closeTerminal called from the user interface
CloseTerminal(terminalId) ==
    /\ UseOp
    /\ LET m == closeTerminal(Mgr, terminalId)
       IN /\ Commit(m)
          /\ toHost' = toHost \o m.sent
          /\ last' = Last("closeTerminal", terminalId, m, "none", <<>>, 0)
    /\ UNCHANGED <<listeners, toDisplay, hostVars, containerFit, clock>>

\* setActiveTerminal called from the user interface, on a registered id
SetActiveTerminal(terminalId) ==
    /\ UseOp
    /\ Has(terminals, terminalId)
    /\ LET m == setActiveTerminal(Mgr, terminalId)
       IN /\ Commit(m)
          /\ last' = Last("setActiveTerminal", terminalId, m, "none", <<>>, 0)
    /\ UNCHANGED <<listeners, toHost, toDisplay, hostVars, containerFit, clock>>

RenameTerminal(terminalId, newName) ==
    /\ UseOp
    /\ LET m == renameTerminal(Mgr, terminalId, newName)
       IN /\ Commit(m)
          /\ last' = Last("renameTerminal", terminalId, m, "none", <<>>, 0)
    /\ UNCHANGED <<listeners, toHost, toDisplay, hostVars, containerFit, clock>>

SetViewMode(mode) ==
    /\ UseOp
    /\ LET m == setViewMode(Mgr, mode)
       IN /\ Commit(m)
          /\ last' = Last("setViewMode", Null, m, "none", <<>>, 0)
    /\ UNCHANGED <<listeners, toHost, toDisplay, hostVars, containerFit, clock>>

SetGridLayout(layout) ==
    /\ UseOp
    /\ LET m == setGridLayout(Mgr, layout)
       IN /\ Commit(m)
          /\ last' = Last("setGridLayout", Null, m, "none", <<>>, 0)
    /\ UNCHANGED <<listeners, toHost, toDisplay, hostVars, containerFit, clock>>

(* ------------------------------------------------- PTY host controller *)
displayVars == <<terminals, activeTerminalId, viewMode, gridLayout,
                 terminalCounter, listeners, instances, mounted, mountTimers,
                 containerFit, fitTimers, destroys>>

\* CreateSession handled, shell spawned: a fresh id is assigned and reported
HostCreate ==
    /\ toHost # <<>>
    /\ Head(toHost).type = "TERMINAL_CREATE"
    /\ toHost' = Tail(toHost)
    /\ hostRunning' = hostRunning \cup {hostNextId}
    /\ hostNextId' = hostNextId + 1
    /\ hostOut' = Append(hostOut, 0)
    /\ hostSize' = Append(hostSize, HostDefaultSize)
    /\ toDisplay' = Append(toDisplay, Msg("TERMINAL_CREATED", hostNextId, TRUE))
    /\ UNCHANGED <<displayVars, legacyVars, clock, budget, last>>

\* CreateSession handled, the shell could not be started
HostSpawnFailure ==
    /\ UseOp
    /\ toHost # <<>>
    /\ Head(toHost).type = "TERMINAL_CREATE"
    /\ toHost' = Tail(toHost)
    /\ toDisplay' = Append(toDisplay, Msg("TERMINAL_CREATED", Null, FALSE))
    /\ UNCHANGED <<displayVars, legacyVars, hostVars, clock, last>>

\* DestroySession handled: the shell is killed; an unknown id is ignored
HostDestroy ==
    /\ toHost # <<>>
    /\ Head(toHost).type = "TERMINAL_DESTROY"
    /\ toHost' = Tail(toHost)
    /\ hostRunning' = hostRunning \ {Head(toHost).id}
    /\ UNCHANGED <<displayVars, legacyVars, toDisplay, hostNextId, hostOut, hostSize, clock,
                   budget, last>>

\* a shell terminates on its own: the host notifies the display side
HostExit(id) ==
    /\ UseOp
    /\ id \in hostRunning
    /\ hostRunning' = hostRunning \ {id}
    /\ toDisplay' = Append(toDisplay, Msg("TERMINAL_DESTROYED", id, TRUE))
    /\ UNCHANGED <<displayVars, legacyVars, toHost, hostNextId, hostOut, hostSize, clock, last>>

\* time passes: Date.now() reads a later value
ClockAdvance ==
    /\ UseOp
    /\ clock < MaxClock
    /\ clock' = clock + 1
    /\ UNCHANGED <<displayVars, legacyVars, toHost, toDisplay, hostVars, last>>

Next ==
    \/ \E options \in CreateOptions : CreateTerminal(options)
    \/ OnTerminalCreated
    \/ OnTerminalDestroyed
    \/ \E id \in KnownIds : CloseTerminal(id)
    \/ \E id \in KnownIds : SetActiveTerminal(id)
    \/ \E id \in KnownIds, n \in CustomNames : RenameTerminal(id, n)
    \/ \E mode \in ViewModes : SetViewMode(mode)
    \/ \E layout \in GridLayouts : SetGridLayout(layout)
    \/ HostCreate
    \/ HostSpawnFailure
    \/ HostDestroy
    \/ \E id \in hostRunning : HostExit(id)
    \/ ClockAdvance

Spec == Init /\ [][Next]_vars

(* ------------------------------------------------ fit and _sendResize *)
\* fitAddon.fit(): an emulator attached to the content area takes the size
\* that fits; a detached one has no dimensions and keeps its size
fit(m, terminalId, fitNow) ==
    IF terminalId \in DOMAIN m.instances /\ terminalId \in m.mounted
    THEN [m EXCEPT !.instances[terminalId].size = fitNow]
    ELSE m

\* a plausible slip: rows and cols change places in the payload
sendResizeSwapped(m, terminalId) ==
    IF Has(m.terminals, terminalId)
    THEN [m EXCEPT !.sent = Append(@, DataMsg("TERMINAL_RESIZE_ID", terminalId,
                                              <<m.instances[terminalId].size[2],
                                                m.instances[terminalId].size[1]>>))]
    ELSE m

sendResize(m, terminalId) ==
    IF Has(m.terminals, terminalId)
    THEN [m EXCEPT !.sent = Append(@, DataMsg("TERMINAL_RESIZE_ID", terminalId,
                                              m.instances[terminalId].size))]
    ELSE m

\* for (const [id, instance] of this.terminals) if (instance.opened) ...
RECURSIVE FitEach(_, _, _)
FitEach(m, ts, fitNow) ==
    IF ts = <<>> THEN m
    ELSE FitEach(IF m.instances[Head(ts).id].opened
                 THEN sendResize(fit(m, Head(ts).id, fitNow), Head(ts).id)
                 ELSE m,
                 Tail(ts), fitNow)

fitAll(m, fitNow) == FitEach(m, m.terminals, fitNow)

\* fitAll run by a render timer or through MultiTerminalUI.fitTerminal
FitAll ==
    /\ UseOp
    /\ LET m == fitAll(Mgr, containerFit)
       IN /\ Commit(m)
          /\ toHost' = toHost \o m.sent
          /\ last' = Last("fitAll", Null, m, "none", <<>>, 0)
    /\ UNCHANGED <<listeners, toDisplay, hostVars, containerFit, clock>>

\* the timer started by mountTerminal fires: fit, then _sendResize
MountTimerFires(terminalId) ==
    /\ terminalId \in mountTimers
    /\ LET m0 == sendResize(fit(Mgr, terminalId, containerFit), terminalId)
           m == [m0 EXCEPT !.mountTimers = @ \ {terminalId}]
       IN /\ Commit(m)
          /\ toHost' = toHost \o m.sent
          /\ last' = Last("mountTimer", terminalId, m, "none", <<>>, 0)
    /\ UNCHANGED <<listeners, toDisplay, hostVars, containerFit, clock, budget>>

\* the window is resized: another size fits the content area
WindowResize(size) ==
    /\ UseOp
    /\ containerFit' = size
    /\ UNCHANGED <<terminals, activeTerminalId, viewVars, terminalCounter, listeners,
                   instances, mounted, mountTimers, fitTimers, destroys, toHost,
                   toDisplay, hostVars, clock, last>>

(* ---------------------------------------------------------------- input *)
CR == 13
Commands == {1}
Keys == {2}

\* a plausible slip: the command goes to the terminal created last
sendCommandToNewest(m, command) ==
    IF m.terminals # <<>>
    THEN [m EXCEPT !.sent = Append(@, DataMsg("TERMINAL_INPUT_ID",
                                              m.terminals[Len(m.terminals)].id,
                                              <<command, CR>>))]
    ELSE m

\* command + '\r' to the active terminal, when there is one
sendCommand(m, command) ==
    IF m.activeTerminalId # Null
    THEN [m EXCEPT !.sent = Append(@, DataMsg("TERMINAL_INPUT_ID", m.activeTerminalId,
                                              <<command, CR>>))]
    ELSE m

SendCommand(command) ==
    /\ UseOp
    /\ LET m == sendCommand(Mgr, command)
       IN /\ Commit(m)
          /\ toHost' = toHost \o m.sent
          /\ last' = Last("sendCommand", activeTerminalId, m, "none", <<>>, 0)
    /\ UNCHANGED <<listeners, toDisplay, hostVars, containerFit, clock>>

\* terminal.onData: the user types into an opened emulator
TerminalData(terminalId, data) ==
    /\ UseOp
    /\ Has(terminals, terminalId)
    /\ instances[terminalId].opened
    /\ LET m == [Mgr EXCEPT !.sent = <<DataMsg("TERMINAL_INPUT_ID", terminalId, <<data>>)>>]
       IN /\ Commit(m)
          /\ toHost' = toHost \o m.sent
          /\ last' = Last("onData", terminalId, m, "none", <<>>, 0)
    /\ UNCHANGED <<listeners, toDisplay, hostVars, containerFit, clock>>

(* --------------------------------------------------------------- output *)
\* a slip: the chunk goes to the active terminal, as in writeToActive
onTerminalOutputToActive(m, terminalId, data) ==
    IF m.activeTerminalId \in DOMAIN m.instances
    THEN [m EXCEPT !.instances[m.activeTerminalId].written = Append(@, data)]
    ELSE m

\* a slip: a chunk for an unknown id falls back to the active terminal
onTerminalOutputFallback(m, terminalId, data) ==
    IF Has(m.terminals, terminalId)
    THEN [m EXCEPT !.instances[terminalId].written = Append(@, data)]
    ELSE onTerminalOutputToActive(m, terminalId, data)

\* const instance = this.terminals.get(terminalId); if (instance) instance.terminal.write(data)
onTerminalOutput(m, terminalId, data) ==
    IF Has(m.terminals, terminalId)
    THEN [m EXCEPT !.instances[terminalId].written = Append(@, data)]
    ELSE m

\* a slip: output is held back while a createTerminal call awaits its reply
OnTerminalOutputAfterCreate ==
    /\ listeners = <<>>
    /\ toDisplay # <<>>
    /\ Head(toDisplay).type = "TERMINAL_OUTPUT_ID"
    /\ LET msg == Head(toDisplay)
           m == onTerminalOutput(Mgr, msg.id, msg.data)
       IN /\ Commit(m)
          /\ last' = Last("TERMINAL_OUTPUT_ID", msg.id, m, "none", <<>>, 0)
    /\ toDisplay' = Tail(toDisplay)
    /\ UNCHANGED <<listeners, toHost, hostVars, containerFit, clock, budget>>

\* the renderer handles a TERMINAL_OUTPUT_ID message
OnTerminalOutput ==
    /\ toDisplay # <<>>
    /\ Head(toDisplay).type = "TERMINAL_OUTPUT_ID"
    /\ LET msg == Head(toDisplay)
           m == onTerminalOutput(Mgr, msg.id, msg.data)
       IN /\ Commit(m)
          /\ last' = Last("TERMINAL_OUTPUT_ID", msg.id, m, "none", <<>>, 0)
    /\ toDisplay' = Tail(toDisplay)
    /\ UNCHANGED <<listeners, toHost, hostVars, containerFit, clock, budget>>

\* a running shell prints: the chunk is forwarded tagged with its id
HostOutput(id) ==
    /\ UseOp
    /\ id \in hostRunning
    /\ hostOut' = [hostOut EXCEPT ![id] = @ + 1]
    /\ toDisplay' = Append(toDisplay, DataMsg("TERMINAL_OUTPUT_ID", id, <<hostOut[id] + 1>>))
    /\ UNCHANGED <<displayVars, legacyVars, toHost, hostNextId, hostRunning, hostSize, clock, last>>

\* Input and Resize handled by the host: written to / applied to the pty of
\* the id, an unknown id is ignored
HostInputOrResize ==
    /\ toHost # <<>>
    /\ Head(toHost).type \in {"TERMINAL_INPUT_ID", "TERMINAL_RESIZE_ID"}
    /\ toHost' = Tail(toHost)
    /\ hostSize' = IF /\ Head(toHost).type = "TERMINAL_RESIZE_ID"
                      /\ Head(toHost).id \in hostRunning
                   THEN [hostSize EXCEPT ![Head(toHost).id] = Head(toHost).data]
                   ELSE hostSize
    /\ UNCHANGED <<displayVars, legacyVars, toDisplay, hostNextId, hostRunning, hostOut, clock,
                   budget, last>>

(* ------------------------------------ the manager called with any id *)
\* setActiveTerminal called with an id that is not registered
SetActiveUnregistered(terminalId) ==
    /\ UseOp
    /\ ~Has(terminals, terminalId)
    /\ LET m == setActiveTerminal(Mgr, terminalId)
       IN /\ Commit(m)
          /\ last' = Last("setActiveTerminal", terminalId, m, "none", <<>>, 0)
    /\ UNCHANGED <<listeners, toHost, toDisplay, hostVars, containerFit, clock>>

\* the wide scenario only
InitWide ==
    /\ Init
    /\ terminals = <<>>
    /\ budget = [creates |-> WideCreates, ops |-> WideOps]

NextApi ==
    \/ Next
    \/ \E id \in KnownIds : SetActiveUnregistered(id)

SpecApi == InitWide /\ [][NextApi]_vars

(* ------------------------------------------- fitting, resizing and input *)
NextView ==
    \/ Next
    \/ FitAll
    \/ \E id \in mountTimers : MountTimerFires(id)
    \/ \E size \in FitSizes : WindowResize(size)
    \/ \E command \in Commands : SendCommand(command)
    \/ \E id \in KnownIds, data \in Keys : TerminalData(id, data)
    \/ HostInputOrResize

\* the state after construction, with the events of a scenario to spend
Constructed(creates, ops) ==
    /\ terminals = <<>>
    /\ activeTerminalId = Null
    /\ terminalCounter = 0
    /\ hostNextId = 1
    /\ hostRunning = {}
    /\ hostOut = <<>>
    /\ hostSize = <<>>
    /\ instances = <<>>
    /\ mounted = {}
    /\ mountTimers = {}
    /\ budget = [creates |-> creates, ops |-> ops]
    /\ viewMode = "tabs"
    /\ gridLayout = "2x2"
    /\ listeners = <<>>
    /\ toHost = <<>>
    /\ toDisplay = <<>>
    /\ clock = 0
    /\ containerFit = <<120, 40>>
    /\ fitTimers = 0
    /\ destroys = <<>>
    /\ last = [op |-> "init", id |-> Null, prevActive |-> Null, found |-> FALSE,
               removed |-> <<>>, notes |-> <<>>, sent |-> <<>>, result |-> "none",
               resolved |-> <<>>, rejected |-> 0, timers |-> 0]
    /\ LegacyLoaded

InitView == Constructed(ViewCreates, ViewOps)

SpecView == InitView /\ [][NextView]_vars

\* the same, with setActiveTerminal also called on unregistered ids
NextViewApi ==
    \/ NextView
    \/ \E id \in KnownIds : SetActiveUnregistered(id)

SpecViewApi == InitView /\ [][NextViewApi]_vars

(* ------------------------------------------------------ output streams *)
NextOut ==
    \/ Next
    \/ \E id \in hostRunning : HostOutput(id)
    \/ OnTerminalOutput

SpecOut == InitWide /\ [][NextOut]_vars

(* ------------------------------ every event of the manager together *)
NextFull ==
    \/ NextView
    \/ \E id \in hostRunning : HostOutput(id)
    \/ OnTerminalOutput

SpecFull == InitView /\ [][NextFull]_vars

(* ------------------------------- a host that answers, a channel that delivers *)
\* the host handles every request it is sent and the renderer's event loop
\* handles every message it receives
InitLive == Constructed(LiveCreates, LiveOps)

SpecReplies ==
    /\ InitLive
    /\ [][Next]_vars
    /\ WF_vars(HostCreate)
    /\ WF_vars(HostDestroy)
    /\ WF_vars(OnTerminalCreated)
    /\ WF_vars(OnTerminalDestroyed)

(* ---------------------------------------------------- keyboard shortcuts *)
\* a plausible slip: the shortcut closes the active terminal even when it is the only one
CloseShortcutAnySize ==
    /\ UseOp
    /\ activeTerminalId # Null
    /\ \E m \in {closeTerminal(Mgr, activeTerminalId)} :
          /\ Commit(m)
          /\ toHost' = toHost \o m.sent
          /\ last' = Last("closeShortcut", activeTerminalId, m, "none", <<>>, 0)
    /\ UNCHANGED <<listeners, toDisplay, hostVars, containerFit, clock>>

\* Ctrl/Cmd+Shift+W: close the active terminal unless it is the only one
CloseShortcut ==
    /\ UseOp
    /\ activeTerminalId # Null
    /\ Len(terminals) > 1
    /\ \E m \in {closeTerminal(Mgr, activeTerminalId)} :
          /\ Commit(m)
          /\ toHost' = toHost \o m.sent
          /\ last' = Last("closeShortcut", activeTerminalId, m, "none", <<>>, 0)
    /\ UNCHANGED <<listeners, toDisplay, hostVars, containerFit, clock>>

NextKeys ==
    \/ Next
    \/ CloseShortcut

SpecKeys == InitWide /\ [][NextKeys]_vars

\* terminals.findIndex(t => t.id === id): zero-based, -1 when no element matches
findIndex(ts, id) == IF Has(ts, id) THEN IndexOf(ts, id) - 1 ELSE 0 - 1

\* a plausible slip: the index stops at the ends instead of wrapping around
switchTerminalNoWrap(m, direction) ==
    LET ts == getTerminalStates(m)
    IN IF Len(ts) <= 1 THEN m
       ELSE LET currentIndex == findIndex(ts, m.activeTerminalId)
                moved == currentIndex + direction
                low == IF moved < 0 THEN 0 ELSE moved
                newIndex == IF low >= Len(ts) THEN Len(ts) - 1 ELSE low
            IN setActiveTerminal(m, ts[newIndex + 1].id)

\* _switchTerminal(direction): the neighbour of the active terminal, wrapping around
switchTerminal(m, direction) ==
    LET ts == getTerminalStates(m)
    IN IF Len(ts) <= 1 THEN m
       ELSE LET currentIndex == findIndex(ts, m.activeTerminalId)
                moved == currentIndex + direction
                low == IF moved < 0 THEN Len(ts) - 1 ELSE moved
                newIndex == IF low >= Len(ts) THEN 0 ELSE low
            IN setActiveTerminal(m, ts[newIndex + 1].id)

\* Ctrl/Cmd+Tab (direction 1) and Ctrl/Cmd+Shift+Tab (direction -1)
Directions == {1, 0 - 1}

SwitchTerminal(direction) ==
    /\ UseOp
    /\ \E m \in {switchTerminal(Mgr, direction)} :
          /\ Commit(m)
          /\ last' = Last("switchTerminal", m.activeTerminalId, m,
                          IF direction = 1 THEN "next" ELSE "previous", <<>>, 0)
    /\ UNCHANGED <<listeners, toHost, toDisplay, hostVars, containerFit, clock>>

\* the keyboard alone: new terminal, close the current one, next and previous,
\* with the host and its replies
NextShortcuts ==
    \/ \E options \in CreateOptions : CreateTerminal(options)
    \/ OnTerminalCreated
    \/ OnTerminalDestroyed
    \/ CloseShortcut
    \/ \E direction \in Directions : SwitchTerminal(direction)
    \/ HostCreate
    \/ HostSpawnFailure
    \/ HostDestroy
    \/ \E id \in hostRunning : HostExit(id)
    \/ ClockAdvance

SpecShortcuts == InitWide /\ [][NextShortcuts]_vars

(* ------------------------------------------------------ the fit timers *)
\* a timer started by _renderTabView or _renderGridView fires: fitAll
FitTimerFires ==
    /\ fitTimers > 0
    /\ \E m \in {[fitAll(Mgr, containerFit) EXCEPT !.fitTimers = @ - 1]} :
          /\ Commit(m)
          /\ toHost' = toHost \o m.sent
          /\ last' = Last("fitTimer", Null, m, "none", <<>>, 0)
    /\ UNCHANGED <<listeners, toDisplay, hostVars, containerFit, clock, budget>>

NextTimers ==
    \/ Next
    \/ FitTimerFires
    \/ HostInputOrResize

\* the renderer's event loop runs every timer that is due
SpecTimers ==
    /\ InitLive
    /\ [][NextTimers]_vars
    /\ WF_vars(FitTimerFires)

(* ------------------------------------- closeTerminal, the send failing *)
\* what a failing ipcRenderer.send can do: return with the message lost, or throw
SendFailures == {"lost", "throws"}

\* closeTerminal when ipcRenderer.send throws: the statements before the send
\* have run, the ones after it have not
closeTerminalSendThrows(m, terminalId) ==
    IF ~Has(m.terminals, terminalId) THEN m
    ELSE [m EXCEPT !.terminals = MapDelete(@, terminalId),
                   !.instances = DropInstance(@, terminalId),
                   !.mounted = @ \ {terminalId}]

\* closeTerminal of a registered id while the host cannot be reached
CloseTerminalHostUnavailable(terminalId, failure) ==
    /\ UseOp
    /\ Has(terminals, terminalId)
    /\ LET m == IF failure = "throws" THEN closeTerminalSendThrows(Mgr, terminalId)
                ELSE closeTerminal(Mgr, terminalId)
       IN /\ Commit(m)
          /\ last' = Last("closeTerminalSendFailed", terminalId, m, failure, <<>>, 0)
    /\ UNCHANGED <<listeners, toHost, toDisplay, hostVars, containerFit, clock>>

NextHostDown ==
    \/ Next
    \/ \E id \in KnownIds, failure \in SendFailures :
          CloseTerminalHostUnavailable(id, failure)

SpecHostDown == InitWide /\ [][NextHostDown]_vars

(* ------------------------------------ the single-terminal main process *)
\* characters of terminal input, by code
LF == 10
BS == 8
DEL == 127
ESC == 27
Space == 32
Tilde == 126
LetterA == 97

\* the characters typed: both Enters, both backspaces, a blank, a letter and
\* a control character
Chars == {CR, LF, BS, DEL, Space, LetterA, ESC}

\* the data of one terminal-input message
InputChunks == UNION {[1..n -> Chars] : n \in 1..MaxChunk}

\* cols x rows of a terminal-resize message
ResizeSizes == {<<120, 40>>}

ProjectPaths == {"project"}
\* process.env.HOME
Home == "home"

\* what pty.spawn can do
SpawnOutcomes == {"spawned", "throws"}

\* the state of the main process as one value
Legacy ==
    [ptyProcess |-> ptyProcess, ptys |-> ptys,
     currentProjectPath |-> currentProjectPath,
     inputBuffer |-> inputBuffer, logFile |-> logFile]

\* a pseudo-terminal spawned by pty.spawn with cols 80, rows 24 in cwd
Spawned(cwd) ==
    [cwd |-> cwd, size |-> <<80, 24>>, killed |-> FALSE, exited |-> FALSE,
     written |-> <<>>]

\* a slip: the existing process is not killed
KeepExisting(L) == L.ptys

\* if (ptyProcess) ptyProcess.kill()
KillExisting(L) ==
    IF L.ptyProcess # Null THEN [L.ptys EXCEPT ![L.ptyProcess].killed = TRUE]
    ELSE L.ptys

\* startPTY(workingDir): kill the existing process, spawn the next one
startPTY(L, workingDir, outcome) ==
    LET survivors == KillExisting(L)
        cwd == IF workingDir # NoPath THEN workingDir
               ELSE IF L.currentProjectPath # NoPath THEN L.currentProjectPath
               ELSE Home
    IN IF outcome = "spawned"
       THEN [L EXCEPT !.ptys = Append(survivors, Spawned(cwd)),
                      !.ptyProcess = Len(survivors) + 1]
       ELSE [L EXCEPT !.ptys = survivors]

\* ipcMain.on('restart-terminal')
restartTerminal(L, projectPath, outcome) ==
    startPTY([L EXCEPT !.currentProjectPath = projectPath], projectPath, outcome)

\* char >= ' ' && char <= '~'
Printable(c) == c >= Space /\ c <= Tilde

\* the characters String.prototype.trim removes
Whitespace == {9, 10, 11, 12, 13, Space}

RECURSIVE trimStart(_)
trimStart(str) ==
    IF str # <<>> /\ Head(str) \in Whitespace THEN trimStart(Tail(str)) ELSE str

RECURSIVE trimEnd(_)
trimEnd(str) ==
    IF str # <<>> /\ str[Len(str)] \in Whitespace
    THEN trimEnd(SubSeq(str, 1, Len(str) - 1)) ELSE str

\* String.prototype.trim
trim(str) == trimEnd(trimStart(str))

\* inputBuffer.slice(0, -1)
DropLast(str) == IF str = <<>> THEN <<>> ELSE SubSeq(str, 1, Len(str) - 1)

\* a slip: the buffer is not emptied after Enter
BufferAfterEnterKept(buffer) == buffer

\* inputBuffer = '' after Enter
BufferAfterEnter(buffer) == <<>>

\* one turn of the logging loop
logChar(L, char, now) ==
    IF char = CR \/ char = LF
    THEN [L EXCEPT !.logFile = IF Len(trim(L.inputBuffer)) > 0
                               THEN Append(@, [timestamp |-> now, text |-> L.inputBuffer])
                               ELSE @,
                   !.inputBuffer = BufferAfterEnter(@)]
    ELSE IF char = DEL \/ char = BS
    THEN [L EXCEPT !.inputBuffer = DropLast(@)]
    ELSE IF Printable(char)
    THEN [L EXCEPT !.inputBuffer = Append(@, char)]
    ELSE L

\* for (let char of data)
RECURSIVE logInput(_, _, _)
logInput(L, data, now) ==
    IF data = <<>> THEN L
    ELSE logInput(logChar(L, Head(data), now), Tail(data), now)

\* ipcMain.on('terminal-input'): write to the pty, then log
terminalInput(L, data, now) ==
    IF L.ptyProcess # Null
    THEN logInput([L EXCEPT !.ptys[L.ptyProcess].written = Append(@, data)], data, now)
    ELSE L

\* ipcMain.on('terminal-resize')
terminalResize(L, size) ==
    IF L.ptyProcess # Null THEN [L EXCEPT !.ptys[L.ptyProcess].size = size] ELSE L

\* every variable of the multi-terminal side
multiVars == <<terminals, activeTerminalId, viewMode, gridLayout, terminalCounter,
               listeners, toHost, toDisplay, hostNextId, hostRunning, instances,
               mounted, mountTimers, containerFit, hostOut, hostSize, fitTimers,
               destroys, budget, last>>

CommitLegacy(L) ==
    /\ ptyProcess' = L.ptyProcess
    /\ ptys' = L.ptys
    /\ currentProjectPath' = L.currentProjectPath
    /\ inputBuffer' = L.inputBuffer
    /\ logFile' = L.logFile

StartTerminal ==
    /\ legacyBudget.starts > 0
    /\ legacyBudget' = [legacyBudget EXCEPT !.starts = @ - 1]
    /\ \E outcome \in SpawnOutcomes : CommitLegacy(startPTY(Legacy, NoPath, outcome))
    /\ UNCHANGED <<typed, multiVars, clock>>

RestartTerminal(projectPath) ==
    /\ legacyBudget.starts > 0
    /\ legacyBudget' = [legacyBudget EXCEPT !.starts = @ - 1]
    /\ \E outcome \in SpawnOutcomes :
          CommitLegacy(restartTerminal(Legacy, projectPath, outcome))
    /\ UNCHANGED <<typed, multiVars, clock>>

TerminalInput(data) ==
    /\ legacyBudget.typed >= Len(data)
    /\ legacyBudget' = [legacyBudget EXCEPT !.typed = @ - Len(data)]
    /\ CommitLegacy(terminalInput(Legacy, data, clock))
    /\ typed' = IF ptyProcess # Null THEN typed \o data ELSE typed
    /\ UNCHANGED <<multiVars, clock>>

TerminalResize(size) ==
    /\ legacyBudget.ops > 0
    /\ legacyBudget' = [legacyBudget EXCEPT !.ops = @ - 1]
    /\ CommitLegacy(terminalResize(Legacy, size))
    /\ UNCHANGED <<typed, multiVars, clock>>

\* the shell of a pseudo-terminal exits by itself: onExit only logs
PtyExit(i) ==
    /\ legacyBudget.ops > 0
    /\ legacyBudget' = [legacyBudget EXCEPT !.ops = @ - 1]
    /\ ~ptys[i].killed /\ ~ptys[i].exited
    /\ ptys' = [ptys EXCEPT ![i].exited = TRUE]
    /\ UNCHANGED <<ptyProcess, currentProjectPath, inputBuffer, logFile, typed,
                   multiVars, clock>>

NextLegacy ==
    \/ StartTerminal
    \/ \E projectPath \in ProjectPaths : RestartTerminal(projectPath)
    \/ \E data \in InputChunks : TerminalInput(data)
    \/ \E size \in ResizeSizes : TerminalResize(size)
    \/ \E i \in DOMAIN ptys : PtyExit(i)
    \/ ClockAdvance

\* the main process alone, the clock advancing once
InitLegacy == Constructed(0, MaxClock)

SpecLegacy == InitLegacy /\ [][NextLegacy]_vars

(* ------------------------------------------------------------ properties *)
ActiveIndexes(ts) == {i \in 1..Len(ts) : ts[i].isActive}

\* the event just handled closed a registered terminal
ClosedOne == last.op \in {"closeTerminal", "TERMINAL_DESTROYED"} /\ last.found

\* the event just handled closed the terminal that was active
ClosedActive == ClosedOne /\ last.prevActive = last.id

\* C1: the registry never holds more than maxTerminals = 9 sessions, also
\* when creates overlap and closes and host exits are interleaved.
C1_RegistryBounded == Len(terminals) <= maxTerminals

\* two overlapping creates were answered while 8 sessions were open
C1_Witness ==
    /\ Len(terminals) = maxTerminals
    /\ last.op = "TERMINAL_CREATED"
    /\ Len(last.resolved) >= 2

\* C2: at most one session has isActive; exactly one when the registry is
\* non-empty, none when it is empty; the flagged session is the one whose id
\* is activeTerminalId.
C2_OneActive ==
    /\ Cardinality(ActiveIndexes(terminals)) <= 1
    /\ terminals # <<>> => Cardinality(ActiveIndexes(terminals)) = 1
    /\ terminals = <<>> => ActiveIndexes(terminals) = {} /\ activeTerminalId = Null
    /\ \A i \in 1..Len(terminals) :
          terminals[i].isActive <=> terminals[i].id = activeTerminalId

\* the active session was switched while several sessions were open
C2_Witness ==
    /\ last.op = "setActiveTerminal"
    /\ last.prevActive # last.id
    /\ last.prevActive # Null
    /\ Len(terminals) >= 2
    /\ activeTerminalId = last.id

\* the most recently created session of ts: the latest createdAt, and among
\* equal timestamps the one added last
MostRecentlyCreated(ts) ==
    LET i == CHOOSE k \in 1..Len(ts) :
               \A j \in 1..Len(ts) :
                  \/ ts[j].createdAt < ts[k].createdAt
                  \/ ts[j].createdAt = ts[k].createdAt /\ j <= k
    IN ts[i].id

\* C3: closing the active session while another session remains makes the
\* most recently created remaining session active.
C3_ReassignMostRecent ==
    (ClosedActive /\ terminals # <<>>) =>
        activeTerminalId = MostRecentlyCreated(terminals)

\* create 1, 2, 3; activate 2; close 2: 3 is active, not 1
C3_Witness ==
    /\ last.op = "closeTerminal"
    /\ last.id = 2
    /\ last.prevActive = 2
    /\ Ids(terminals) = {1, 3}
    /\ activeTerminalId = 3

\* C4: closing the only remaining session leaves no active session and the
\* snapshot delivered to the subscriber has an empty session list.
C4_CloseLastEmpties ==
    (ClosedOne /\ terminals = <<>>) =>
        /\ activeTerminalId = Null
        /\ last.notes # <<>>
        /\ \A k \in 1..Len(last.notes) :
              /\ last.notes[k].terminals = <<>>
              /\ last.notes[k].activeTerminalId = Null

\* the only session was closed by the user
C4_Witness ==
    /\ last.op = "closeTerminal"
    /\ last.found
    /\ last.prevActive = last.id
    /\ terminals = <<>>

CreateTerminalStep == \E options \in CreateOptions : CreateTerminal(options)

\* C5: createTerminal with 9 sessions registered returns null and changes
\* nothing: same registry, same active id, no message to the host, no
\* notification.
C5_CapacityRejected ==
    [][(CreateTerminalStep /\ Len(terminals) = maxTerminals) =>
          /\ last'.result = "null"
          /\ terminals' = terminals
          /\ activeTerminalId' = activeTerminalId
          /\ terminalCounter' = terminalCounter
          /\ listeners' = listeners
          /\ toHost' = toHost
          /\ last'.sent = <<>>
          /\ last'.notes = <<>>]_vars

\* a 10th create was rejected
C5_Witness ==
    /\ last.op = "createTerminal"
    /\ last.result = "null"
    /\ Len(terminals) = maxTerminals
    /\ toHost = <<>>

\* C6: a TERMINAL_DESTROYED notice for a registered id tears the session
\* down without sending TERMINAL_DESTROY to the host.
C6_NoDestroyOnExitNotice ==
    (last.op = "TERMINAL_DESTROYED" /\ last.found) =>
        /\ ~Has(terminals, last.id)
        /\ last.sent = <<>>

\* C7: a TERMINAL_DESTROYED notice for an id that is no longer registered
\* changes nothing, sends nothing and notifies nobody.
C7_LateNoticeIsNoop ==
    [][(OnTerminalDestroyed /\ ~Has(terminals, Head(toDisplay).id)) =>
          /\ UNCHANGED displayVars
          /\ toHost' = toHost
          /\ last'.sent = <<>>
          /\ last'.notes = <<>>]_vars

\* the notice for a session arrived after the user had closed it: the
\* TERMINAL_DESTROY of that close is still on its way to the host
C7_Witness ==
    /\ last.op = "TERMINAL_DESTROYED"
    /\ ~last.found
    /\ \E k \in 1..Len(toHost) :
          toHost[k].type = "TERMINAL_DESTROY" /\ toHost[k].id = last.id

\* C8: every mutating operation emits exactly one notification.
C8_ExactlyOneNotification ==
    /\ (last.op = "TERMINAL_CREATED" /\ Len(last.resolved) = 1) => Len(last.notes) = 1
    /\ (last.op \in {"closeTerminal", "renameTerminal"} /\ last.found) => Len(last.notes) = 1
    /\ last.op \in {"setActiveTerminal", "setViewMode", "setGridLayout"} => Len(last.notes) = 1

\* C9: each TERMINAL_CREATED reply completes exactly one pending
\* createTerminal call.
C9_OneReplyOneCall ==
    last.op = "TERMINAL_CREATED" => Len(last.resolved) + last.rejected <= 1

\* C10: when the channel is drained and no create is pending, the ids with
\* a running shell are exactly the registered ids.
C10_NoOrphans ==
    (toHost = <<>> /\ toDisplay = <<>> /\ listeners = <<>>) =>
        hostRunning = Ids(terminals)
\* a TERMINAL_DESTROY for id is on its way to the host
DestroyInFlight(id) ==
    \E k \in 1..Len(toHost) :
        toHost[k].type = "TERMINAL_DESTROY" /\ toHost[k].id = id

\* C11: closeTerminal of an id that is not registered is a no-op: registry,
\* active id, view state and counter unchanged, no TERMINAL_DESTROY sent,
\* no notification.
C11_CloseIsIdempotent ==
    [][\A id \in KnownIds :
          (CloseTerminal(id) /\ ~Has(terminals, id)) =>
              /\ UNCHANGED displayVars
              /\ toHost' = toHost
              /\ last'.sent = <<>>
              /\ last'.notes = <<>>
              /\ last'.removed = <<>>]_vars

\* a session was closed a second time while the TERMINAL_DESTROY of the
\* first close was still on its way
C11_Witness ==
    /\ last.op = "closeTerminal"
    /\ ~last.found
    /\ DestroyInFlight(last.id)

\* C12: setActiveTerminal with an unregistered id leaves the state unchanged:
\* the active session stays, activeTerminalId never names an unregistered id
\* and a non-empty registry always has a session marked active.
C12_SetActiveUnknownRejected ==
    /\ (last.op = "setActiveTerminal" /\ ~last.found) =>
          /\ activeTerminalId = last.prevActive
          /\ last.notes = <<>>
    /\ activeTerminalId # Null => Has(terminals, activeTerminalId)
    /\ terminals # <<>> => ActiveIndexes(terminals) # {}

\* the state records with the name fields left out
Unnamed(ts) ==
    [i \in 1..Len(ts) |-> [id |-> ts[i].id, isActive |-> ts[i].isActive,
                           createdAt |-> ts[i].createdAt]]

\* C13: renameTerminal changes only the name of the session: ids, active
\* flags, creation order and view state stay and nothing is sent to the
\* host; a TERMINAL_DESTROYED notice for a registered id removes it, renamed
\* or not.
C13_RenameOnlyRenames ==
    /\ [][\A id \in KnownIds, n \in CustomNames :
            RenameTerminal(id, n) =>
                /\ Unnamed(terminals') = Unnamed(terminals)
                /\ \A i \in 1..Len(terminals) :
                      terminals[i].id # id =>
                          terminals'[i] = terminals[i]
                /\ UNCHANGED <<activeTerminalId, viewMode, gridLayout,
                               terminalCounter, listeners, toHost>>
                /\ last'.sent = <<>>]_vars
    /\ []((last.op = "TERMINAL_DESTROYED" /\ last.found) =>
             (~Has(terminals, last.id) /\ Len(last.removed) = 1))

\* a renamed session was removed by a host exit notice
C13_Witness ==
    /\ last.op = "TERMINAL_DESTROYED"
    /\ Len(last.removed) = 1
    /\ last.removed[1].id = last.id
    /\ last.removed[1].customName # NoName
    /\ ~Has(terminals, last.id)

IdsOf(l) == [i \in 1..Len(l) |-> l[i].id]

SortedByCreatedAt(l) ==
    \A i, j \in 1..Len(l) : i < j => l[i].createdAt <= l[j].createdAt

\* sessions of l with equal createdAt are in the order they were added to ts
TiesInInsertionOrder(l, ts) ==
    \A i, j \in 1..Len(l) :
        (i < j /\ l[i].createdAt = l[j].createdAt) =>
            IndexOf(ts, l[i].id) < IndexOf(ts, l[j].id)

\* the ids of getTerminalStates() for the registry ts
PresentedIds(ts) == IdsOf(SortByCreatedAt(ts))

\* C16: the session list given to presentation is ordered by createdAt
\* ascending, equal timestamps in insertion order, and no step changes the
\* relative order of the sessions it keeps.
C16_OrderedByCreation ==
    /\ [](/\ SortedByCreatedAt(getTerminalStates(Mgr))
          /\ TiesInInsertionOrder(getTerminalStates(Mgr), terminals)
          /\ IdsOf(getTerminalStates(Mgr)) = IdsOf(terminals)
          /\ \A k \in 1..Len(last.notes) :
                SortedByCreatedAt(last.notes[k].terminals))
    /\ [][SelectSeq(PresentedIds(terminals), LAMBDA id : Has(terminals', id))
           = SelectSeq(PresentedIds(terminals'), LAMBDA id : Has(terminals, id))]_vars

\* three sessions, two of them with the same timestamp and one later, after
\* an activation or a rename
C16_Witness ==
    /\ last.op \in {"setActiveTerminal", "renameTerminal"}
    /\ last.found
    /\ Len(terminals) >= 3
    /\ \E i, j \in 1..Len(terminals) :
          i # j /\ terminals[i].createdAt = terminals[j].createdAt
    /\ \E i, j \in 1..Len(terminals) :
          terminals[i].createdAt < terminals[j].createdAt

C18_ActiveOnCreate ==
    (last.op = "TERMINAL_CREATED" /\ last.result = "resolved") =>
        /\ Has(terminals, last.id)
        /\ IF Len(terminals) = 1 \/ last.prevActive = Null
           THEN /\ activeTerminalId = last.id
                /\ terminals[IndexOf(terminals, last.id)].isActive
           ELSE /\ activeTerminalId = last.prevActive
                /\ ~terminals[IndexOf(terminals, last.id)].isActive
                /\ Has(terminals, last.prevActive)
                /\ terminals[IndexOf(terminals, last.prevActive)].isActive

\* a session was created while another one was active
C18_Witness ==
    /\ last.op = "TERMINAL_CREATED"
    /\ last.result = "resolved"
    /\ last.prevActive # Null
    /\ Len(terminals) >= 2
    /\ activeTerminalId = last.prevActive
\* the messages of the given type among msgs that carry the id
MsgsFor(msgs, type, id) ==
    SelectSeq(msgs, LAMBDA x : x.type = type /\ x.id = id)

\* C14: fitAll sends exactly one Resize for every mounted session, carrying
\* the size of its emulator, and none for a session that is not mounted.
C14_FitAllResizesMounted ==
    last.op = "fitAll" =>
        /\ \A id \in mounted :
              /\ Len(MsgsFor(last.sent, "TERMINAL_RESIZE_ID", id)) = 1
              /\ MsgsFor(last.sent, "TERMINAL_RESIZE_ID", id)[1].data = instances[id].size
        /\ \A k \in 1..Len(last.sent) : last.sent[k].id \in mounted

\* the chunks 1..n of one session, as the host numbers them
Chunks(n) == [k \in 1..n |-> <<k>>]

DataOf(msgs) == [k \in 1..Len(msgs) |-> msgs[k].data]

\* C15: what was written to the emulator of a registered session, followed
\* by the chunks for it still on their way, is the host's output sequence
\* for that id: nothing lost, duplicated, reordered or written elsewhere.
C15_OutputInOrder ==
    \A i \in 1..Len(terminals) :
        LET id == terminals[i].id
        IN instances[id].written \o DataOf(MsgsFor(toDisplay, "TERMINAL_OUTPUT_ID", id))
             = Chunks(hostOut[id])

\* two sessions received output, one of them two chunks, the last one just now
C15_Witness ==
    /\ last.op = "TERMINAL_OUTPUT_ID"
    /\ last.found
    /\ Has(terminals, last.id)
    /\ instances[last.id].written = Chunks(2)
    /\ \E i \in 1..Len(terminals) :
          /\ terminals[i].id # last.id
          /\ instances[terminals[i].id].written = Chunks(1)

\* C19: an Output or SessionDestroyed message whose id is not registered is
\* ignored: no state change, no write to an emulator, no message, no
\* notification.
C19_UnknownIdIgnored ==
    [][((OnTerminalOutput \/ OnTerminalDestroyed)
          /\ ~Has(terminals, Head(toDisplay).id)) =>
              /\ UNCHANGED displayVars
              /\ toHost' = toHost
              /\ last'.sent = <<>>
              /\ last'.notes = <<>>
              /\ last'.removed = <<>>]_vars

\* output arrived for a session that is not registered while another
\* session is registered and active
C19_Witness ==
    /\ last.op = "TERMINAL_OUTPUT_ID"
    /\ ~last.found
    /\ activeTerminalId # Null
    /\ instances[activeTerminalId].written = <<>>

\* C20: every Input, Resize and DestroySession message the renderer sends
\* names an id that is registered when the event that sends it is handled.
C20_OnlyRegisteredIdsSent ==
    [][Len(toHost') > Len(toHost) =>
          \A k \in (Len(toHost) + 1)..Len(toHost') :
              toHost'[k].type \in {"TERMINAL_INPUT_ID", "TERMINAL_RESIZE_ID",
                                   "TERMINAL_DESTROY"}
                  => Has(terminals, toHost'[k].id)]_vars

\* C21: when the send of TERMINAL_DESTROY fails inside closeTerminal, the
\* session is still removed, the active session is re-assigned by the
\* removal policy and the subscriber gets a snapshot without the session.
C21_RemovedDespiteSendFailure ==
    last.op = "closeTerminalSendFailed" =>
        /\ ~Has(terminals, last.id)
        /\ last.prevActive = last.id =>
               activeTerminalId = (IF terminals = <<>> THEN Null
                                   ELSE MostRecentlyCreated(terminals))
        /\ last.notes # <<>>
        /\ \A k \in 1..Len(last.notes) : ~Has(last.notes[k].terminals, last.id)

\* C22: setViewMode and setGridLayout change only viewMode / gridLayout and
\* emit one notification with the new view state, whatever the session set;
\* sessions, names, order, active id and counter stay, nothing is sent; no
\* other operation changes viewMode or gridLayout.
C22_ViewStateFrame ==
    /\ [][\A mode \in ViewModes :
            SetViewMode(mode) =>
                /\ viewMode' = mode
                /\ UNCHANGED <<gridLayout, terminals, activeTerminalId,
                               terminalCounter, listeners, toHost>>
                /\ Len(last'.notes) = 1
                /\ last'.notes[1].viewMode = mode
                /\ last'.notes[1].terminals = SortByCreatedAt(terminals)]_vars
    /\ [][\A layout \in GridLayouts :
            SetGridLayout(layout) =>
                /\ gridLayout' = layout
                /\ UNCHANGED <<viewMode, terminals, activeTerminalId,
                               terminalCounter, listeners, toHost>>
                /\ Len(last'.notes) = 1
                /\ last'.notes[1].gridLayout = layout
                /\ last'.notes[1].terminals = SortByCreatedAt(terminals)]_vars
    /\ [][/\ viewMode' # viewMode => \E mode \in ViewModes : SetViewMode(mode)
          /\ gridLayout' # gridLayout =>
                \E layout \in GridLayouts : SetGridLayout(layout)]_vars

\* the view mode was switched to grid while no session was open
C22_Witness ==
    /\ last.op = "setViewMode"
    /\ terminals = <<>>
    /\ viewMode = "grid"
    /\ Len(last.notes) = 1
    /\ last.notes[1].terminals = <<>>

\* a Resize message is on its way to the host
ResizeInFlight ==
    \E k \in 1..Len(toHost) : toHost[k].type = "TERMINAL_RESIZE_ID"

\* C23: whenever every Resize sent so far has been delivered, the
\* pseudo-terminal of every registered session whose shell runs has the
\* cols x rows of its emulator (80 x 24 on both sides before the first fit).
C23_SizesConsistent ==
    ~ResizeInFlight =>
        \A i \in 1..Len(terminals) :
            terminals[i].id \in hostRunning =>
                hostSize[terminals[i].id] = instances[terminals[i].id].size

\* a session was fitted to the content area and the host has applied the
\* size; another session was never fitted
C23_Witness ==
    /\ ~ResizeInFlight
    /\ \E i \in 1..Len(terminals) :
          /\ terminals[i].id \in hostRunning
          /\ instances[terminals[i].id].size = <<120, 40>>
          /\ hostSize[terminals[i].id] = <<120, 40>>
    /\ \E i \in 1..Len(terminals) :
          /\ terminals[i].id \in hostRunning
          /\ ~instances[terminals[i].id].opened
          /\ hostSize[terminals[i].id] = HostDefaultSize

\* C24: at most one createTerminal call is awaiting its TERMINAL_CREATED
\* reply at any time.
C24_OneOutstandingCreate == Len(listeners) <= 1

\* a createTerminal call awaits its reply
CreatePending == listeners # <<>>

\* C25: a pending createTerminal call is completed only by a
\* TERMINAL_CREATED reply (no timeout, no cancellation) and no session is
\* added without one; while a call is pending, close, activate, rename,
\* view mode, fit and incoming Output / SessionDestroyed messages are
\* handled and take effect.
C25_PendingCreateDoesNotBlock ==
    /\ [][/\ Len(listeners') < Len(listeners) => OnTerminalCreated
          /\ (\E i \in 1..Len(terminals') : ~Has(terminals, terminals'[i].id))
                => OnTerminalCreated]_vars
    /\ []((CreatePending /\ budget.ops > 0) =>
             /\ \A i \in 1..Len(terminals) :
                   /\ ENABLED CloseTerminal(terminals[i].id)
                   /\ ENABLED SetActiveTerminal(terminals[i].id)
                   /\ \A n \in CustomNames : ENABLED RenameTerminal(terminals[i].id, n)
             /\ \A mode \in ViewModes : ENABLED SetViewMode(mode)
             /\ ENABLED FitAll)
    /\ []((CreatePending /\ toDisplay # <<>>) =>
             /\ Head(toDisplay).type = "TERMINAL_OUTPUT_ID" => ENABLED OnTerminalOutput
             /\ Head(toDisplay).type = "TERMINAL_DESTROYED" => ENABLED OnTerminalDestroyed)
    /\ [][CreatePending =>
            /\ \A id \in Ids(terminals) :
                  /\ CloseTerminal(id) => ~Has(terminals', id)
                  /\ SetActiveTerminal(id) => activeTerminalId' = id
                  /\ \A n \in CustomNames :
                        RenameTerminal(id, n) =>
                            terminals'[IndexOf(terminals, id)].name = n
            /\ \A mode \in ViewModes : SetViewMode(mode) => viewMode' = mode
            /\ FitAll =>
                  \A id \in mounted :
                      MsgsFor(last'.sent, "TERMINAL_RESIZE_ID", id) # <<>>
            /\ (OnTerminalOutput /\ Has(terminals, Head(toDisplay).id)) =>
                  instances'[Head(toDisplay).id].written =
                      Append(instances[Head(toDisplay).id].written, Head(toDisplay).data)
            /\ (OnTerminalDestroyed /\ Has(terminals, Head(toDisplay).id)) =>
                  ~Has(terminals', Head(toDisplay).id)]_vars

\* a session was closed while a createTerminal call was pending and its
\* TERMINAL_CREATE had not been answered
C25_Witness ==
    /\ CreatePending
    /\ last.op = "closeTerminal"
    /\ last.found
    /\ ~Has(terminals, last.id)
    /\ \E k \in 1..Len(toHost) : toHost[k].type = "TERMINAL_CREATE"

\* C26: with a host that answers every TERMINAL_CREATE and a channel that
\* delivers, n pending createTerminal calls are all eventually completed:
\* each one resolved with an id or rejected with an error.
C26_CreateCompletes ==
    \A n \in 1..MaxPending :
        (Len(listeners) = n) ~>
            (/\ last.op = "TERMINAL_CREATED"
             /\ Len(last.resolved) + last.rejected >= n
             /\ listeners = <<>>)

\* two calls were pending at once and a reply has completed both
C26_Witness ==
    /\ last.op = "TERMINAL_CREATED"
    /\ Len(last.resolved) + last.rejected = MaxPending
    /\ listeners = <<>>

\* C27: over a whole run at most one TERMINAL_DESTROY is sent per session
\* id, however user closes, keyboard closes and host exit notices interleave.
C27_OneDestroyPerId ==
    \A id \in DOMAIN destroys : destroys[id] <= 1

\* the exit notice of a session arrived after the session had been closed
\* with the keyboard or by the user: one TERMINAL_DESTROY was sent for it
C27_Witness ==
    /\ last.op = "TERMINAL_DESTROYED"
    /\ ~last.found
    /\ last.id \in DOMAIN destroys
    /\ destroys[last.id] = 1
    /\ Cardinality(DOMAIN destroys) >= 2

\* the snapshot n names as active a session of its list or none, flags
\* exactly that session and lists its sessions by createdAt
ConsistentSnapshot(n) ==
    /\ n.activeTerminalId = Null \/ Has(n.terminals, n.activeTerminalId)
    /\ \A i \in 1..Len(n.terminals) :
          n.terminals[i].isActive <=> n.terminals[i].id = n.activeTerminalId
    /\ SortedByCreatedAt(n.terminals)

\* C28: every snapshot delivered to the subscriber, the intermediate ones
\* of a create or a close included, is consistent and holds no session the
\* event has closed.
C28_SnapshotsConsistent ==
    \A k \in 1..Len(last.notes) :
        /\ ConsistentSnapshot(last.notes[k])
        /\ \A j \in 1..Len(last.removed) :
              ~Has(last.notes[k].terminals, last.removed[j].id)

\* the active session was closed while others remained: two snapshots were
\* delivered, the first one from inside the re-assignment
C28_Witness ==
    /\ last.op = "closeTerminal"
    /\ last.found
    /\ last.prevActive = last.id
    /\ Len(last.notes) = 2
    /\ Len(last.notes[1].terminals) >= 2
    /\ last.notes[1].activeTerminalId # Null

\* C29: every state-change notification schedules one fitAll, a scheduled
\* fitAll is never cancelled, and every scheduled fitAll is eventually run.
C29_FitAllEventuallyRuns ==
    /\ [](last.op # "fitTimer" => last.timers = Len(last.notes))
    /\ [][fitTimers' < fitTimers =>
            (last'.op = "fitTimer" /\ fitTimers' = fitTimers - 1)]_vars
    /\ (fitTimers > 0) ~> (fitTimers = 0)

\* after a switch to the grid with sessions open the last scheduled fitAll
\* has run and has sent a Resize
C29_Witness ==
    /\ last.op = "fitTimer"
    /\ fitTimers = 0
    /\ viewMode = "grid"
    /\ last.sent # <<>>

\* C30: after a state-change notification, in tabs mode the only session
\* mounted in the content area is the active one (none when none is
\* active); in grid mode the sessions of the snapshot are the ones the grid
\* was given to mount.
C30_TabsMountOnlyActive ==
    last.notes # <<>> =>
        /\ viewMode = "tabs" =>
              mounted = (IF activeTerminalId = Null THEN {} ELSE {activeTerminalId})
        /\ viewMode = "grid" =>
              mounted = Ids(last.notes[Len(last.notes)].terminals)

\* in tabs mode the user switched from a session that was shown to another
C30_Witness ==
    /\ last.op = "setActiveTerminal"
    /\ viewMode = "tabs"
    /\ last.prevActive # Null
    /\ last.prevActive # last.id
    /\ Has(terminals, last.prevActive)
    /\ instances[last.prevActive].opened
    /\ mounted = {last.id}

\* sessions that were never renamed
NeverRenamed == {i \in 1..Len(terminals) : terminals[i].customName = NoName}

\* the default names in use are "Terminal n" with n a number the counter has
\* already passed, and no two sessions that were never renamed share one
DefaultNamesDistinct ==
    /\ \A i \in NeverRenamed :
          /\ terminals[i].name[1] = "Terminal"
          /\ terminals[i].name[2] \in 1..terminalCounter
    /\ \A i, j \in NeverRenamed : i # j => terminals[i].name # terminals[j].name

\* the name carried by the session with this id in this registry
NameOf(ts, id) == ts[IndexOf(ts, id)].name

\* a successful reply that completes k creates takes the next k numbers, and
\* the session it registers carries the last of them
NextNumbersTaken(ts, counter, l, before) ==
    (l.op = "TERMINAL_CREATED" /\ l.result = "resolved")
        => /\ counter = before + Len(l.resolved)
           /\ Has(ts, l.id)
           /\ NameOf(ts, l.id) = <<"Terminal", counter>>

\* C31: the default name of a session is "Terminal N" with N taken from a
\* counter that only increases: two sessions that were never renamed never
\* carry the same default name, also after earlier sessions were closed, and
\* consecutive successful creates get consecutive numbers
C31_DefaultNamesFromCounter ==
    /\ [](DefaultNamesDistinct)
    /\ [][/\ terminalCounter' >= terminalCounter
          /\ last' # last => NextNumbersTaken(terminals', terminalCounter', last', terminalCounter)]_vars

\* a create completed after an earlier session was closed, next to a session
\* that was never renamed
C31_Witness ==
    /\ last.op = "TERMINAL_CREATED"
    /\ last.result = "resolved"
    /\ Len(terminals) >= 2
    /\ Len(terminals) < terminalCounter
    /\ \A i \in 1..Len(terminals) : terminals[i].customName = NoName
    /\ \E d \in DOMAIN destroys : destroys[d] > 0

\* the renderer handles a host exit notice in this step
DestroyedHandled(queue, rest) ==
    /\ queue # <<>>
    /\ Head(queue).type = "TERMINAL_DESTROYED"
    /\ rest = Tail(queue)

\* the renderer handled an event in this step, and it is the one named
Handled(op, before, after) == after # before /\ after.op = op

\* C32: the close shortcut never empties the registry: it closes the active
\* session only when more than one session is registered, so once a session
\* exists creates and shortcut closes leave at least one session and an active
\* one; only a host exit notice removes the last session
C32_ShortcutKeepsOneSession ==
    [][/\ Handled("closeShortcut", last, last')
          => /\ Len(terminals) > 1
             /\ last'.id = activeTerminalId
             /\ Len(terminals') = Len(terminals) - 1
             /\ ~Has(terminals', last'.id)
       /\ (terminals # <<>> /\ ~DestroyedHandled(toDisplay, toDisplay'))
          => /\ terminals' # <<>>
             /\ Has(terminals', activeTerminalId')]_vars

\* the shortcut closed the active session of two: one is left, and it is active
C32_Witness ==
    /\ last.op = "closeShortcut"
    /\ last.removed # <<>>
    /\ Len(terminals) = 1
    /\ activeTerminalId = terminals[1].id
    /\ toDisplay = <<>>

\* the manager after k presses of the same switching shortcut
RECURSIVE Switched(_, _, _)
Switched(m, direction, k) ==
    IF k = 0 THEN m
    ELSE CHOOSE r \in {Switched(x, direction, k - 1) : x \in {switchTerminal(m, direction)}} : TRUE

\* the neighbour of position i among n sessions in creation order, wrapping around
Neighbour(i, n, direction) == ((i - 1 + direction + n) % n) + 1

\* what one press of a switching shortcut does to the registry ts with active session a
SwitchedAsSpecified(ts, a, ts2, a2, l) ==
    IF Len(ts) <= 1
    THEN ts2 = ts /\ a2 = a /\ l.notes = <<>>
    ELSE /\ Has(ts2, a2)
         /\ Ids(ts2) = Ids(ts)
         /\ a2 = ts[Neighbour(IndexOf(ts, a), Len(ts),
                               IF l.result = "next" THEN 1 ELSE 0 - 1)].id

\* C33: next/previous switching always activates a registered session and
\* wraps around in creation order (next from the last goes to the first,
\* previous from the first to the last), n successive steps over n sessions
\* return to the starting session, and with one or zero sessions it changes
\* nothing and emits no notification
C33_SwitchWrapsAround ==
    /\ [](\A direction \in Directions :
            Switched(Mgr, direction, Len(terminals)).activeTerminalId = activeTerminalId)
    /\ [][Handled("switchTerminal", last, last')
            => SwitchedAsSpecified(terminals, activeTerminalId,
                                   terminals', activeTerminalId', last')]_vars

\* "next" pressed on the last of three or more sessions: the first one is active
C33_Witness ==
    /\ last.op = "switchTerminal"
    /\ last.result = "next"
    /\ Len(terminals) >= 3
    /\ last.prevActive = terminals[Len(terminals)].id
    /\ activeTerminalId = terminals[1].id

\* the one Input message that carries a command to the session with this id
CommandMessages(id) == {<<DataMsg("TERMINAL_INPUT_ID", id, <<command, CR>>)>> : command \in Commands}

\* what sendCommand sends, given the registry and the active id at that moment
CommandDelivered(ts, active, sent) ==
    IF active = Null THEN sent = <<>>
    ELSE /\ Has(ts, active)
         /\ ts[IndexOf(ts, active)].isActive
         /\ sent \in CommandMessages(active)

\* C34: a command sent through sendCommand is delivered as one Input message,
\* the command followed by a carriage return, to the session that is active at
\* that moment and to no other session; when no session is active it is
\* dropped and no message is sent
C34_CommandToActiveOnly ==
    [][Handled("sendCommand", last, last')
        => /\ CommandDelivered(terminals, activeTerminalId, last'.sent)
           /\ toHost' = toHost \o last'.sent
           /\ UNCHANGED <<terminals, activeTerminalId>>]_vars

\* a command sent while the second of two sessions is the active one
C34_Witness ==
    /\ last.op = "sendCommand"
    /\ Len(terminals) = 2
    /\ activeTerminalId = terminals[2].id
    /\ Len(last.sent) = 1
    /\ last.sent[1].id = activeTerminalId
    /\ last.sent[1].data[2] = CR

\* the text a sequence of typed characters leaves on the line: a printable
\* character is added at the end, a backspace deletes the latest remaining one
RECURSIVE Edited(_)
Edited(line) ==
    IF line = <<>> THEN <<>>
    ELSE LET before == Edited(SubSeq(line, 1, Len(line) - 1))
             c == line[Len(line)]
         IN IF c \in {BS, DEL}
            THEN (IF before = <<>> THEN <<>> ELSE SubSeq(before, 1, Len(before) - 1))
            ELSE IF c \in Space..Tilde THEN before \o <<c>>
            ELSE before

\* positions of the Enters among the characters
Enters(chars) == {i \in 1..Len(chars) : chars[i] \in {CR, LF}}

\* the characters typed between the previous Enter and the Enter at position e
LineEndingAt(chars, e) ==
    LET earlier == {i \in Enters(chars) : i < e}
        from == IF earlier = {} THEN 1
                ELSE (CHOOSE i \in earlier : \A j \in earlier : j <= i) + 1
    IN SubSeq(chars, from, e - 1)

\* the characters typed since the last Enter
LineInProgress(chars) ==
    LET es == Enters(chars)
        from == IF es = {} THEN 1 ELSE (CHOOSE i \in es : \A j \in es : j <= i) + 1
    IN SubSeq(chars, from, Len(chars))

Blank(text) == \A i \in 1..Len(text) : text[i] = Space

\* the Enters that end a line whose text is not blank
LoggedEnters(chars) == {e \in Enters(chars) : ~Blank(Edited(LineEndingAt(chars, e)))}

LivePtys(ps) == {i \in DOMAIN ps : ~ps[i].killed /\ ~ps[i].exited}

\* the processes spawned before the most recent one are killed, and ptyProcess
\* is the most recent one
OnePtyLive ==
    /\ Cardinality(LivePtys(ptys)) <= 1
    /\ \A i \in DOMAIN ptys : i < Len(ptys) => ptys[i].killed
    /\ ptyProcess = Len(ptys)

\* no input and no size reaches a process that is not the most recent one
OlderUntouched(before, after) ==
    \A i \in DOMAIN before :
        i < Len(before) => /\ after[i].written = before[i].written
                           /\ after[i].size = before[i].size

\* C36: after any sequence of start-terminal and restart-terminal messages at
\* most one pseudo-terminal process is live, the previous one being killed
\* before the next is spawned; every later terminal-input and terminal-resize
\* message is applied to the most recently spawned process only; input or
\* resize arriving before any start is dropped
C36_OnePtyServed ==
    /\ [](OnePtyLive)
    /\ [][/\ Len(ptys') >= Len(ptys)
          /\ OlderUntouched(ptys, ptys')
          /\ (ptys # <<>> /\ legacyBudget'.typed < legacyBudget.typed)
             => /\ typed' # typed
                /\ ptys' = [ptys EXCEPT ![Len(ptys)].written =
                               Append(@, SubSeq(typed', Len(typed) + 1, Len(typed')))]
          /\ (ptys # <<>> /\ legacyBudget'.ops < legacyBudget.ops /\ clock' = clock)
             => \/ \E size \in ResizeSizes : ptys' = [ptys EXCEPT ![Len(ptys)].size = size]
                \/ \E i \in LivePtys(ptys) : ptys' = [ptys EXCEPT ![i].exited = TRUE]
          /\ (ptys = <<>> /\ legacyBudget'.starts = legacyBudget.starts)
             => UNCHANGED <<ptyProcess, ptys, inputBuffer, logFile, typed>>]_vars

\* input reached the first process, which was then killed, and later input
\* and a resize reached the second
C36_Witness ==
    /\ Len(ptys) = 2
    /\ ptys[1].killed
    /\ ptys[1].written # <<>>
    /\ ptys[1].size = <<80, 24>>
    /\ ~ptys[2].killed
    /\ ptys[2].written # <<>>
    /\ ptys[2].size # <<80, 24>>
====
